---- MODULE Spec2Model ----
(***************************************************************************)
(* The run database of lab-notebook: a tree of named nodes kept in a YAML  *)
(* file, the glob resolution of Pattern.nodes, and the commands new, rm,   *)
(* mv and change-description that read and rewrite the tree.               *)
(*                                                                         *)
(* A node is a record [id, name, parent, attrs, born]; the tree is the     *)
(* sequence of its nodes below the root in the order in which they were    *)
(* attached, so the children of a node are the subsequence with that       *)
(* parent (the order anytree keeps in node.children).  The root has id 0.  *)
(* A run is a node whose attrs carry the key "commit"; born records which  *)
(* statement created the node ("AnyNode" of Run.new or "add_to_tree") and  *)
(* is read by no operation.                                                *)
(***************************************************************************)
EXTENDS Integers, Sequences, FiniteSets, TLC

VARIABLES tree, last, count

vars == <<tree, last, count>>

(***************************************************************************)
(* Bounds of the model.                                                    *)
(***************************************************************************)
MaxNodes == 5
MaxCmds == 4
RecursionLimit == 3

(***************************************************************************)
(* Constants of runs/util.py.                                              *)
(***************************************************************************)
NAME == "name"
COMMIT == "commit"
DESCRIPTION == "description"

Sep == "/"
ROOT == 0
None == -1

RunKeys == {"input_command", "full_command", COMMIT, "datetime", DESCRIPTION}

\* the element of a one-element set: The({e : x \in {v}}) is e with x standing
\* for the value of v, worked out once
The(S) == CHOOSE x \in S : TRUE

(***************************************************************************)
(* Tree helpers (anytree's NodeMixin as the sources use it).               *)
(***************************************************************************)
Ids(t) == {t[i].id : i \in DOMAIN t}

NodeOf(t, id) == t[CHOOSE i \in DOMAIN t : t[i].id = id]

ChildNodes(t, pid) == SelectSeq(t, LAMBDA n : n.parent = pid)

Children(t, pid) ==
    LET kids == ChildNodes(t, pid) IN [i \in DOMAIN kids |-> kids[i].id]

RECURSIVE PathOf(_, _)
PathOf(t, id) ==
    IF id = ROOT THEN <<>>
    ELSE PathOf(t, NodeOf(t, id).parent) \o <<NodeOf(t, id).name>>

RECURSIVE IsBelow(_, _, _)
\* id lies in the subtree rooted at top (top itself included)
IsBelow(t, id, top) ==
    IF id = top THEN TRUE
    ELSE IF id = ROOT THEN FALSE
    ELSE IsBelow(t, NodeOf(t, id).parent, top)

RECURSIVE PreOrderAll(_, _, _)
RECURSIVE PreOrder(_, _)
\* anytree.PreOrderIter: the node, then the subtrees of its children in order
PreOrder(t, id) == <<id>> \o PreOrderAll(t, Children(t, id), 1)
PreOrderAll(t, kids, i) ==
    IF i > Len(kids) THEN <<>>
    ELSE PreOrder(t, kids[i]) \o PreOrderAll(t, kids, i + 1)

hasattr(t, id, key) == id # ROOT /\ key \in DOMAIN NodeOf(t, id).attrs

BaseIfRun(t, base) == SelectSeq(<<base>>, LAMBDA id : hasattr(t, id, COMMIT))

\* findall(base, lambda n: hasattr(n, COMMIT))
FindRuns(t, base) == SelectSeq(PreOrder(t, base), LAMBDA id : hasattr(t, id, COMMIT))

\* node.parent = None: the node leaves the tree together with the subtree it roots
Detach(t, id) == SelectSeq(t, LAMBDA n : ~IsBelow(t, n.id, id))

FreshId(t) == CHOOSE k \in 1..(Len(t) + 1) : k \notin Ids(t) /\ \A j \in 1..(k - 1) : j \in Ids(t)

(***************************************************************************)
(* fnmatch.fnmatch(name, pat), which anytree's Resolver uses to match one  *)
(* path segment: * any run of characters, ? one character, [seq] and       *)
(* [!seq] one character in / not in seq.                                   *)
(***************************************************************************)
Ch(s, i) == SubSeq(s, i, i)
From(s, i) == SubSeq(s, i, Len(s))

\* index of the ] closing the class opened at p[1] = "[", or 0 when there is none
ClassEnd(p) ==
    LET first == IF Len(p) >= 2 /\ Ch(p, 2) = "!" THEN 3 ELSE 2
        cand  == {j \in (first + 1)..Len(p) : Ch(p, j) = "]"}
    IN  IF cand = {} THEN 0 ELSE CHOOSE j \in cand : \A k \in cand : j <= k

InClass(c, p, e) ==
    LET neg   == Ch(p, 2) = "!"
        first == IF neg THEN 3 ELSE 2
        hit   == \E j \in first..(e - 1) : Ch(p, j) = c
    IN  IF neg THEN ~hit ELSE hit

RECURSIVE fnmatch(_, _)
fnmatch(s, p) ==
    IF Len(p) = 0 THEN Len(s) = 0
    ELSE IF Ch(p, 1) = "*" THEN \E k \in 1..(Len(s) + 1) : fnmatch(From(s, k), From(p, 2))
    ELSE IF Len(s) = 0 THEN FALSE
    ELSE IF Ch(p, 1) = "?" THEN fnmatch(From(s, 2), From(p, 2))
    ELSE IF Ch(p, 1) = "[" /\ ClassEnd(p) # 0
         THEN InClass(Ch(s, 1), p, ClassEnd(p)) /\ fnmatch(From(s, 2), From(p, ClassEnd(p) + 1))
    ELSE Ch(p, 1) = Ch(s, 1) /\ fnmatch(From(s, 2), From(p, 2))

\* Resolver.is_wildcard
is_wildcard(p) == \E i \in 1..Len(p) : Ch(p, i) \in {"?", "*"}

(***************************************************************************)
(* Resolver().glob(root, path): one pattern segment per tree level.  The   *)
(* result is [err, nodes]; err stands for ChildResolverError, raised when  *)
(* a segment without wildcard matches no child, and swallowed while the    *)
(* children of a wildcard segment are tried.                               *)
(***************************************************************************)
RECURSIVE GlobFrom(_, _, _)
RECURSIVE GlobFind(_, _, _, _, _)
GlobFrom(t, node, parts) ==
    The({ IF found.err THEN found
          ELSE IF found.nodes = <<>> /\ ~is_wildcard(parts[1])
               THEN [err |-> TRUE, nodes |-> <<>>]
          ELSE found
        : found \in {The({GlobFind(t, kids, 1, parts[1], Tail(parts))
                          : kids \in {Children(t, node)}})} })
GlobFind(t, kids, i, pat, remainder) ==
    IF i > Len(kids) THEN [err |-> FALSE, nodes |-> <<>>]
    ELSE The({ IF here.err /\ ~is_wildcard(pat) THEN here
               ELSE The({ IF here.err \/ rest.err THEN rest
                          ELSE [err |-> FALSE, nodes |-> here.nodes \o rest.nodes]
                        : rest \in {GlobFind(t, kids, i + 1, pat, remainder)} })
             : here \in { IF ~fnmatch(NodeOf(t, kids[i]).name, pat)
                          THEN [err |-> FALSE, nodes |-> <<>>]
                          ELSE IF remainder = <<>> THEN [err |-> FALSE, nodes |-> <<kids[i]>>]
                          ELSE GlobFrom(t, kids[i], remainder) } })

Glob(t, parts) == GlobFrom(t, ROOT, parts)

RECURSIVE FindRunsAll(_, _, _)
FindRunsAll(t, bases, i) ==
    IF i > Len(bases) THEN <<>>
    ELSE FindRuns(t, bases[i]) \o FindRunsAll(t, bases, i + 1)

\* the list comprehension of Pattern.nodes; <<>> when the glob raised
run_nodes(t, parts) ==
    The({ IF bases.err THEN <<>> ELSE FindRunsAll(t, bases.nodes, 1)
        : bases \in {Glob(t, parts)} })

Star == <<"*">>

RECURSIVE EmptyMatch(_, _)
\* the except branch of Pattern.nodes: the listing is Pattern('*').tree_string(),
\* whose tree() calls Pattern('*').nodes again; with no run recorded that call
\* takes the except branch itself, and so on until the interpreter gives up
EmptyMatch(t, depth) ==
    IF run_nodes(t, Star) # <<>> THEN "exit"
    ELSE IF depth >= RecursionLimit THEN "RecursionError"
    ELSE EmptyMatch(t, depth + 1)

\* Pattern.nodes: [out, nodes], out "ok" when the list is returned to the caller
PatternNodes(t, parts) ==
    The({ IF found # <<>> THEN [out |-> "ok", nodes |-> found]
          ELSE [out |-> EmptyMatch(t, 1), nodes |-> <<>>]
        : found \in {run_nodes(t, parts)} })

(***************************************************************************)
(* DBPath (runs/db.py): a path is the sequence of its parts.               *)
(***************************************************************************)
head(parts) == parts[Len(parts)]
parent(parts) == SubSeq(parts, 1, Len(parts) - 1)

RECURSIVE join(_)
\* DBPath.path: the parts joined by the separator
join(parts) ==
    IF parts = <<>> THEN ""
    ELSE IF Len(parts) = 1 THEN parts[1]
    ELSE parts[1] \o Sep \o join(Tail(parts))

FirstChild(t, node, name) ==
    The({ IF hits = <<>> THEN None ELSE hits[1]
        : hits \in {SelectSeq(Children(t, node), LAMBDA c : NodeOf(t, c).name = name)} })

RECURSIVE NodeAt(_, _, _)
\* DBPath.node: the node the parts lead to from `from`, None when there is none
NodeAt(t, from, parts) ==
    IF parts = <<>> THEN from
    ELSE The({ IF child = None THEN None ELSE NodeAt(t, child, Tail(parts))
             : child \in {FirstChild(t, from, parts[1])} })

node(t, parts) == NodeAt(t, ROOT, parts)

NoAttrs == [k \in {} |-> ""]

RECURSIVE AddFrom(_, _, _)
\* DBPath.add_to_tree: walk the parts from the root, creating the missing
\* nodes as directories; [tree, node] with node the last one
AddFrom(t, from, parts) ==
    IF parts = <<>> THEN [tree |-> t, node |-> from]
    ELSE The({ IF child # None THEN AddFrom(t, child, Tail(parts))
               ELSE The({ AddFrom(grown, grown[Len(grown)].id, Tail(parts))
                        : grown \in {Append(t, [id |-> FreshId(t), name |-> parts[1],
                                                parent |-> from, attrs |-> NoAttrs,
                                                born |-> "add_to_tree"])} })
             : child \in {FirstChild(t, from, parts[1])} })

add_to_tree(t, parts) == AddFrom(t, ROOT, parts)

(***************************************************************************)
(* Run.build_command (runs/run.py).  Commands and flag templates are       *)
(* strings.                                                                *)
(***************************************************************************)
\* re.findall('.*<(.*)>', flag): the leading .* is greedy, so the one match
\* starts its group after the last < that still has a > behind it, and the
\* greedy group runs to the last > of the flag
findall(flag) ==
    LET gts   == {j \in 1..Len(flag) : Ch(flag, j) = ">"}
        lts   == {i \in 1..Len(flag) : Ch(flag, i) = "<" /\ \E j \in gts : j > i}
        lastL == CHOOSE i \in lts : \A k \in lts : k <= i
        lastG == CHOOSE j \in gts : \A k \in gts : k <= j
    IN  IF lts = {} THEN <<>> ELSE <<SubSeq(flag, lastL + 1, lastG - 1)>>

RECURSIVE replace(_, _, _)
\* str.replace(old, new)
replace(s, old, new) ==
    IF Len(s) < Len(old) THEN s
    ELSE IF SubSeq(s, 1, Len(old)) = old THEN new \o replace(From(s, Len(old) + 1), old, new)
    ELSE Ch(s, 1) \o replace(From(s, 2), old, new)

CfgRoot == "/r"

keywords(parts) ==
    << [word |-> "path", replacement |-> join(parts)],
       [word |-> "root", replacement |-> CfgRoot],
       [word |-> NAME,   replacement |-> head(parts)] >>

in_keywords(match, kw) == \E i \in DOMAIN kw : kw[i].word = match

RECURSIVE substitute(_, _, _)
substitute(flag, kw, i) ==
    IF i > Len(kw) THEN flag
    ELSE substitute(replace(flag, "<" \o kw[i].word \o ">", kw[i].replacement), kw, i + 1)

RECURSIVE add_flags(_, _, _, _)
\* the loop over cfg.flags: [err, command], err for the failed assert
add_flags(command, flags, i, kw) ==
    IF i > Len(flags) THEN [err |-> FALSE, command |-> command]
    ELSE IF \E m \in DOMAIN findall(flags[i]) : ~in_keywords(findall(flags[i])[m], kw)
         THEN [err |-> TRUE, command |-> command]
    ELSE add_flags(command \o " " \o substitute(flags[i], kw, 1), flags, i + 1, kw)

build_command(parts, command, cfg) ==
    LET built == add_flags(command, cfg.flags, 1, keywords(parts))
    IN  IF built.err THEN built
        ELSE IF cfg.virtualenv_path # ""
             THEN [err |-> FALSE,
                   command |-> "source " \o cfg.virtualenv_path \o "/bin/activate; " \o built.command]
        ELSE built

(***************************************************************************)
(* Run.remove, Run.move, Run.chdescription (runs/run.py).  Each returns    *)
(* the tree it leaves persisted, its outcome and the side effects it had,  *)
(* in order.                                                               *)
(***************************************************************************)
Run_remove(t, parts) ==
    The({ [tree |-> IF nd # None THEN Detach(t, nd) ELSE t,
           out  |-> "ok",
           log  |-> <<"kill_tmux", "rmdirs", "write">>]
        : nd \in {node(t, parts)} })

\* node.name = dest.head; node.parent = parent.  A node given a new parent is
\* appended to that parent's children; a node keeping its parent keeps its place
Reparent(t, id, newname, pid) ==
    LET moved == [NodeOf(t, id) EXCEPT !.name = newname, !.parent = pid]
    IN  IF NodeOf(t, id).parent = pid
        THEN [i \in DOMAIN t |-> IF t[i].id = id THEN moved ELSE t[i]]
        ELSE Append(SelectSeq(t, LAMBDA n : n.id # id), moved)

\* dest, when it ends in the separator, names the directory to move into
IntoDir(self, dest) ==
    IF head(dest) = "" THEN parent(dest) \o <<head(self)>> ELSE dest

tmux_step(keep_tmux) == IF keep_tmux THEN "rename_tmux" ELSE "kill_tmux"

MoveTreeFirst(t, self, dest0, keep_tmux, mvdirs_fails) ==
    The({ The({ [tree |-> IF nd = None THEN t
                          ELSE Reparent(added.tree, nd, head(IntoDir(self, dest0)), added.node),
                 out  |-> IF mvdirs_fails THEN "OSError"
                          ELSE IF nd = None THEN "AttributeError" ELSE "ok",
                 log  |-> IF mvdirs_fails THEN <<"write", "mvdirs_failed">>
                          ELSE <<"write", "mvdirs", tmux_step(keep_tmux)>>]
              : nd \in {node(added.tree, self)} })
        : added \in {add_to_tree(t, parent(IntoDir(self, dest0)))} })

Run_move(t, self, dest0, keep_tmux, mvdirs_fails) ==
    IF mvdirs_fails
    THEN [tree |-> t, out |-> "OSError", log |-> <<"mvdirs_failed">>]
    ELSE The({ The({ IF nd = None
                     THEN [tree |-> t, out |-> "AttributeError",
                           log |-> <<"mvdirs", tmux_step(keep_tmux)>>]
                     ELSE IF IsBelow(added.tree, added.node, nd)
                     THEN [tree |-> t, out |-> "LoopError",
                           log |-> <<"mvdirs", tmux_step(keep_tmux)>>]
                     ELSE [tree |-> Reparent(added.tree, nd, head(IntoDir(self, dest0)),
                                             added.node),
                           out  |-> "ok",
                           log  |-> <<"mvdirs", tmux_step(keep_tmux), "write">>]
                   : nd \in {node(added.tree, self)} })
             : added \in {add_to_tree(t, parent(IntoDir(self, dest0)))} })

OnlyAttr(attrs, key, value) == [k \in {key} |-> value]

SetAttr(attrs, key, value) ==
    [k \in DOMAIN attrs \cup {key} |-> IF k = key THEN value ELSE attrs[k]]

\* new_description = "" stands for None: the description comes from the editor
Run_chdescription(t, parts, new_description, vim_text, vim_fails) ==
    The({ IF nd = None
          THEN [tree |-> t, out |-> "AttributeError", log |-> <<>>]
          ELSE IF new_description = "" /\ DESCRIPTION \notin DOMAIN NodeOf(t, nd).attrs
          THEN [tree |-> t, out |-> "AttributeError", log |-> <<>>]
          ELSE IF new_description = "" /\ vim_fails
          THEN [tree |-> t, out |-> "RuntimeError", log |-> <<"vim">>]
          ELSE [tree |-> [i \in DOMAIN t |->
                            IF t[i].id = nd
                            THEN [t[i] EXCEPT !.attrs =
                                    SetAttr(t[i].attrs, DESCRIPTION,
                                            IF new_description = "" THEN vim_text
                                            ELSE new_description)]
                            ELSE t[i]],
                out  |-> "ok",
                log  |-> IF new_description = "" THEN <<"vim", "write">> ELSE <<"write">>]
        : nd \in {node(t, parts)} })

(***************************************************************************)
(* Run.new (runs/run.py).  description = "" stands for None.               *)
(***************************************************************************)
RunAttrs(command, full_command, description) ==
    [k \in RunKeys |->
        CASE k = "input_command" -> command
          [] k = "full_command"  -> full_command
          [] k = COMMIT          -> "sha"
          [] k = "datetime"      -> "now"
          [] k = DESCRIPTION     -> description]

\* the with block of Run.new: the AnyNode under the node add_to_tree yields
Insert(t, parts, attrs) ==
    The({ Append(added.tree, [id |-> FreshId(added.tree), name |-> head(parts),
                              parent |-> added.node, attrs |-> attrs, born |-> "AnyNode"])
        : added \in {add_to_tree(t, parent(parts))} })

\* Run.new once the prompts are passed; removed is what self.remove() left when
\* the path existed
NewRun(removed, parts, command, description, cfg, vim_text, fails) ==
    The({ IF built.err
          THEN [tree |-> removed.tree, out |-> "AssertionError",
                log |-> removed.log \o <<"mkdirs">>]
          ELSE IF description = "" /\ fails = "vim"
          THEN [tree |-> removed.tree, out |-> "RuntimeError",
                log |-> removed.log \o <<"mkdirs", "vim">>]
          ELSE IF fails = "tmux"
          THEN [tree |-> removed.tree, out |-> "CalledProcessError",
                log |-> removed.log \o <<"mkdirs">>
                        \o (IF description = "" THEN <<"vim">> ELSE <<>>) \o <<"kill_tmux">>]
          ELSE [tree |-> Insert(removed.tree, parts,
                                RunAttrs(command, built.command,
                                         IF description = "" THEN vim_text ELSE description)),
                out  |-> "ok",
                log  |-> removed.log \o <<"mkdirs">>
                         \o (IF description = "" THEN <<"vim">> ELSE <<>>)
                         \o <<"kill_tmux", "new_tmux", "write">>]
        : built \in {build_command(parts, command, cfg)} })

Run_new(t, parts, command, description, assume_yes, dirty, permit, cfg, vim_text, fails) ==
    IF dirty /\ ~(assume_yes \/ permit.dirty)
    THEN [tree |-> t, out |-> "declined", log |-> <<>>]
    ELSE IF node(t, parts) = None
    THEN NewRun([tree |-> t, log |-> <<>>], parts, command, description, cfg, vim_text, fails)
    ELSE IF ~(assume_yes \/ permit.overwrite)
    THEN [tree |-> t, out |-> "declined", log |-> <<>>]
    ELSE The({ NewRun(removed, parts, command, description, cfg, vim_text, fails)
             : removed \in {Run_remove(t, parts)} })

(***************************************************************************)
(* Pattern.remove and Pattern.move (runs/pattern.py).                      *)
(***************************************************************************)
\* Pattern.runs: Run(node) keeps the node's path
RunPaths(t, ids) == [i \in DOMAIN ids |-> PathOf(t, ids[i])]

RECURSIVE RemoveEach(_, _, _)
RemoveEach(t, paths, i) ==
    IF i > Len(paths) THEN [tree |-> t, out |-> "ok", log |-> <<>>]
    ELSE The({ The({ [tree |-> rest.tree, out |-> rest.out, log |-> one.log \o rest.log]
                   : rest \in {RemoveEach(one.tree, paths, i + 1)} })
             : one \in {Run_remove(t, paths[i])} })

RemoveUnasked(t, pattern, assume_yes, permit) ==
    The({ IF found.out # "ok"
          THEN [tree |-> t, out |-> found.out, log |-> <<"listing">>]
          ELSE The({RemoveEach(t, paths, 1) : paths \in {RunPaths(t, found.nodes)}})
        : found \in {PatternNodes(t, pattern)} })

Pattern_remove(t, pattern, assume_yes, permit) ==
    The({ IF found.out # "ok"
          THEN [tree |-> t, out |-> found.out, log |-> <<"listing">>]
          ELSE IF ~(assume_yes \/ permit)
          THEN [tree |-> t, out |-> "declined", log |-> <<>>]
          ELSE The({RemoveEach(t, paths, 1) : paths \in {RunPaths(t, found.nodes)}})
        : found \in {PatternNodes(t, pattern)} })

KeepDest(t, dest, n, run) == dest

\* the destination of one run inside the loop of Pattern.move
RunDest(t, dest, n, run) ==
    IF node(t, dest) # None \/ n > 1 THEN parent(dest) \o <<head(run)>> ELSE dest

RECURSIVE MoveEach(_, _, _, _, _, _)
\* the for loop of Pattern.move; fail_at is the run whose mvdirs fails (0: none)
MoveEach(t, paths, i, dest, keep_tmux, fail_at) ==
    IF i > Len(paths) THEN [tree |-> t, out |-> "ok", log |-> <<>>]
    ELSE The({ The({ IF one.out # "ok" THEN one
                     ELSE The({ [tree |-> rest.tree, out |-> rest.out,
                                 log |-> one.log \o rest.log]
                              : rest \in {MoveEach(one.tree, paths, i + 1, d, keep_tmux,
                                                   fail_at)} })
                   : one \in {Run_move(t, paths[i], d, keep_tmux, fail_at = i)} })
             : d \in {RunDest(t, dest, Len(paths), paths[i])} })

Pattern_move(t, pattern, dest, keep_tmux, assume_yes, permit, fail_at) ==
    IF node(t, dest) # None
    THEN [tree |-> t, out |-> "already_exists", log |-> <<>>]
    ELSE The({ IF found.out # "ok"
               THEN [tree |-> t, out |-> found.out, log |-> <<"listing">>]
               ELSE IF ~(assume_yes \/ permit)
               THEN [tree |-> t, out |-> "declined", log |-> <<>>]
               ELSE The({ MoveEach(t, paths, 1, dest, keep_tmux, fail_at)
                        : paths \in {RunPaths(t, found.nodes)} })
             : found \in {PatternNodes(t, pattern)} })

(***************************************************************************)
(* The inputs the commands are tried with.                                 *)
(***************************************************************************)
NewPaths == {<<"a", "b">>, <<"a", "c">>, <<"x", "y">>, <<"x", "b">>}

Patterns == {<<"a", "*">>, <<"*", "y">>, <<"q", "*">>, <<"*", "b">>, <<"*">>,
             <<"a">>, <<"a", "b">>, <<"?", "[bc]">>, <<"[ax]", "y">>}

RemovePatterns == {<<"a", "b">>, <<"a", "*">>, <<"q", "*">>, <<"*">>}

MovePatterns == {<<"a", "*">>, <<"*", "b">>, <<"q", "*">>}

Dests == {<<"x">>, <<"x", "q">>, <<"a", "q">>, <<"w", "">>}

ChPaths == {<<"a", "b">>, <<"x", "y">>, <<"a">>}

FlagPaths == {<<"a", "b">>, <<"x", "y">>}

GoodCfg == [flags |-> <<"--out=<path>">>, virtualenv_path |-> ""]

Configs == { GoodCfg,
             [flags |-> <<"--n=<name>", "--r=<root>">>, virtualenv_path |-> "/v"],
             [flags |-> <<"--x=<foo>">>, virtualenv_path |-> ""],
             [flags |-> <<"--a=<foo> --b=<path>">>, virtualenv_path |-> ""],
             [flags |-> <<"--a=<path> --b=<foo>">>, virtualenv_path |-> ""],
             [flags |-> <<"--out=<path>", "--x=<foo>">>, virtualenv_path |-> ""] }

\* the description given on the command line ("" for none) and the collaborator that fails
NewCases == { [description |-> "",   fails |-> "none"],
              [description |-> "",   fails |-> "vim"],
              [description |-> "d1", fails |-> "tmux"] }

\* --yes, the state of the repository and the answers to the prompts
Prompts ==
    { [assume_yes |-> TRUE,  dirty |-> TRUE,  permit |-> [dirty |-> FALSE, overwrite |-> FALSE]],
      [assume_yes |-> FALSE, dirty |-> TRUE,  permit |-> [dirty |-> FALSE, overwrite |-> TRUE]],
      [assume_yes |-> FALSE, dirty |-> TRUE,  permit |-> [dirty |-> TRUE,  overwrite |-> FALSE]] }

Answers == { [assume_yes |-> TRUE,  permit |-> FALSE, keep_tmux |-> FALSE],
             [assume_yes |-> FALSE, permit |-> TRUE,  keep_tmux |-> TRUE],
             [assume_yes |-> FALSE, permit |-> FALSE, keep_tmux |-> TRUE] }

ChCases == { [new_description |-> "d2", vim_fails |-> FALSE],
             [new_description |-> "",   vim_fails |-> FALSE],
             [new_description |-> "",   vim_fails |-> TRUE] }

\* what the running command was, its inputs, the run nodes its pattern matched
\* and how it ended
Result(op, args, src, res) ==
    [op |-> op, args |-> args, src |-> src, out |-> res.out, log |-> res.log]

Idle == Result("idle", <<>>, <<>>, [out |-> "ok", log |-> <<>>])

(***************************************************************************)
(* One action per command: the shell starts a command when none is         *)
(* running, and the command's process ends with Exit.  count is the number *)
(* of commands started so far.                                             *)
(***************************************************************************)
Init ==
    /\ tree = <<>>
    /\ last = Idle
    /\ count = 0

Ready == last.op = "idle" /\ count < MaxCmds

NewWith(paths, cfgs) ==
    /\ Ready
    /\ \E parts \in paths, p \in Prompts, c \in NewCases, cfg \in cfgs :
        LET res == Run_new(tree, parts, "train", c.description, p.assume_yes, p.dirty,
                           p.permit, cfg, "d1", c.fails)
        IN  /\ Len(res.tree) <= MaxNodes
            /\ tree' = res.tree
            /\ last' = Result("new", [path |-> parts, prompt |-> p, case |-> c, cfg |-> cfg],
                              <<>>, res)
            /\ count' = count + 1

New == NewWith(NewPaths, {GoodCfg})

Remove ==
    /\ Ready
    /\ \E pattern \in RemovePatterns, a \in Answers :
        LET res == Pattern_remove(tree, pattern, a.assume_yes, a.permit)
        IN  /\ tree' = res.tree
            /\ last' = Result("rm", [pattern |-> pattern, answer |-> a],
                              run_nodes(tree, pattern), res)
            /\ count' = count + 1

Move ==
    /\ Ready
    /\ \E pattern \in MovePatterns, dest \in Dests, a \in Answers :
       \E fail_at \in 0..Len(run_nodes(tree, pattern)) :
        LET res == Pattern_move(tree, pattern, dest, a.keep_tmux, a.assume_yes, a.permit, fail_at)
        IN  /\ Len(res.tree) <= MaxNodes
            /\ tree' = res.tree
            /\ last' = Result("mv", [pattern |-> pattern, dest |-> dest, answer |-> a,
                                     fail_at |-> fail_at],
                              run_nodes(tree, pattern), res)
            /\ count' = count + 1

ChangeDescription ==
    /\ Ready
    /\ \E parts \in ChPaths, c \in ChCases :
        LET res == Run_chdescription(tree, parts, c.new_description, "d2", c.vim_fails)
        IN  /\ tree' = res.tree
            /\ last' = Result("chdesc", [path |-> parts, case |-> c], <<>>, res)
            /\ count' = count + 1

List ==
    /\ Ready
    /\ \E pattern \in Patterns :
        /\ tree' = tree
        /\ last' = Result("list", [pattern |-> pattern], run_nodes(tree, pattern),
                          [out |-> PatternNodes(tree, pattern).out, log |-> <<>>])
        /\ count' = count + 1

Exit ==
    /\ last.op # "idle"
    /\ last' = Idle
    /\ UNCHANGED <<tree, count>>

Next == New \/ Remove \/ Move \/ ChangeDescription \/ List \/ Exit

Spec == Init /\ [][Next]_vars

\* new with every configuration of flag templates
NewFlags == NewWith(FlagPaths, Configs)

NextFlags == NewFlags \/ Exit

SpecFlags == Init /\ [][NextFlags]_vars

(***************************************************************************)
(* The claims.                                                             *)
(***************************************************************************)
IsRun(t, id) == hasattr(t, id, COMMIT)

Confirmed(answer) == answer.assume_yes \/ answer.permit

RunAt(t, parts) == node(t, parts) # None /\ IsRun(t, node(t, parts))

\* C1: moving two runs matched by a pattern into a destination that exists
\* as a directory node leaves both runs at dest/<leaf name> and no run at
\* either original path.
C1_MovedIntoExistingDirectory ==
    [][ ( /\ last'.op = "mv"
          /\ Confirmed(last'.args.answer)
          /\ last'.args.fail_at = 0
          /\ Len(last'.src) = 2
          /\ node(tree, last'.args.dest) # None
          /\ ~IsRun(tree, node(tree, last'.args.dest))
          /\ NodeOf(tree, last'.src[1]).name # NodeOf(tree, last'.src[2]).name
          /\ \A i \in 1..2 :
                /\ ~IsBelow(tree, last'.src[i], node(tree, last'.args.dest))
                /\ node(tree, last'.args.dest \o <<NodeOf(tree, last'.src[i]).name>>) = None )
        => \A i \in 1..2 :
              /\ last'.src[i] \in Ids(tree')
              /\ PathOf(tree', last'.src[i])
                    = last'.args.dest \o <<NodeOf(tree, last'.src[i]).name>>
              /\ ~RunAt(tree', PathOf(tree, last'.src[i])) ]_vars

\* where Pattern.move is claimed to put a run named name
ClaimedFinal(t, dest, n, name) ==
    IF n = 1 /\ node(t, dest) = None THEN dest ELSE parent(dest) \o <<name>>

\* where it does: a destination ending in the separator is a directory to move into
Final(t, dest, n, name) ==
    IF n = 1 /\ node(t, dest) = None /\ head(dest) # "" THEN dest ELSE parent(dest) \o <<name>>

Finals(t, src, dest) ==
    {Final(t, dest, Len(src), NodeOf(t, src[i]).name) : i \in DOMAIN src}

C3_UniqueSiblingNames ==
    \A i, j \in DOMAIN tree :
        (tree[i].parent = tree[j].parent /\ tree[i].name = tree[j].name) => i = j

\* C4: a node made as a directory never carries commit, a node made as a run
\* always does; change-description changes nothing but description and a move
\* nothing but names and parents.
C4_CommitDiscriminates ==
    [][ /\ \A i \in DOMAIN tree' :
              (tree'[i].born = "AnyNode") <=> (COMMIT \in DOMAIN tree'[i].attrs)
        /\ last'.op = "chdesc" =>
              /\ Ids(tree') = Ids(tree)
              /\ \A id \in Ids(tree) :
                    /\ NodeOf(tree', id).name = NodeOf(tree, id).name
                    /\ NodeOf(tree', id).parent = NodeOf(tree, id).parent
                    /\ \A k \in DOMAIN NodeOf(tree, id).attrs \ {DESCRIPTION} :
                          /\ k \in DOMAIN NodeOf(tree', id).attrs
                          /\ NodeOf(tree', id).attrs[k] = NodeOf(tree, id).attrs[k]
                    /\ DOMAIN NodeOf(tree', id).attrs
                          \subseteq DOMAIN NodeOf(tree, id).attrs \cup {DESCRIPTION}
        /\ last'.op = "mv" =>
              \A id \in Ids(tree) :
                    /\ id \in Ids(tree')
                    /\ NodeOf(tree', id).attrs = NodeOf(tree, id).attrs ]_vars

C4_Witness ==
    /\ last.op = "mv" /\ last.out = "ok"
    /\ \E i \in DOMAIN last.src :
          /\ IsRun(tree, last.src[i])
          /\ NodeOf(tree, last.src[i]).attrs[DESCRIPTION] = "d2"
          /\ PathOf(tree, last.src[i]) = <<"w", "b">>

\* the path leads to id: one name per pattern segment, each matching its segment
Matches(path, pattern) ==
    /\ Len(path) = Len(pattern)
    /\ \A k \in DOMAIN path : fnmatch(path[k], pattern[k])

Range(seq) == {seq[i] : i \in DOMAIN seq}

NoRepeats(seq) == \A i, j \in DOMAIN seq : seq[i] = seq[j] => i = j

Resolving(l) == l.op \in {"list", "rm", "mv"}

FatalPath(l) == l.out \in {"exit", "RecursionError"}

Reached(t, pattern, k) ==
    {id \in Ids(t) \cup {ROOT} : Matches(PathOf(t, id), SubSeq(pattern, 1, k))}

\* the resolver raises: the first j segments hold neither * nor ?, and a node
\* reached by the first j - 1 of them has no match of the whole pattern below it
Raises(t, pattern) ==
    \E j \in DOMAIN pattern :
        /\ \A i \in 1..j : ~is_wildcard(pattern[i])
        /\ \E n \in Reached(t, pattern, j - 1) :
              ~\E id \in Reached(t, pattern, Len(pattern)) : IsBelow(t, id, n)

C6_EmptyMatchExits ==
    [][ ( /\ last'.op \in {"list", "rm", "mv"}
          /\ last'.src = <<>>
          /\ last'.op = "mv" => node(tree, last'.args.dest) = None )
        => (last'.out = "exit" /\ tree' = tree) ]_vars

Declined(t, l) ==
    \/ /\ l.op = "new"
       /\ ~l.args.prompt.assume_yes
       /\ \/ l.args.prompt.dirty /\ ~l.args.prompt.permit.dirty
          \/ node(t, l.args.path) # None /\ ~l.args.prompt.permit.overwrite
    \/ /\ l.op \in {"rm", "mv"}
       /\ ~Confirmed(l.args.answer)

\* C7: a command whose prompt is declined, without assume-yes, leaves the
\* persisted tree as it was.
C7_DeclinedChangesNothing ==
    [][ Declined(tree, last') => tree' = tree ]_vars

C7_Witness ==
    /\ last.op = "rm" /\ last.out = "declined" /\ Len(last.src) = 2
    /\ \A i \in 1..2 : last.src[i] \in Ids(tree)

\* C8: when new, rm or mv ends, the tree is the tree of the completed command
\* or the tree as it was before.
C8_AllOrNothing ==
    [][ last'.op \in {"new", "rm", "mv"} => (last'.out = "ok" \/ tree' = tree) ]_vars

\* the placeholders <k> of a flag template
Placeholders(flag) ==
    {SubSeq(flag, i + 1, j - 1) : <<i, j>> \in
        {ij \in (1..Len(flag)) \X (1..Len(flag)) :
            /\ ij[1] < ij[2]
            /\ Ch(flag, ij[1]) = "<" /\ Ch(flag, ij[2]) = ">"
            /\ \A k \in (ij[1] + 1)..(ij[2] - 1) : Ch(flag, k) \notin {"<", ">"}}}

Known == {"path", "root", NAME}

\* C9: a flag template with a placeholder that is no keyword makes new fail
\* with the assertion before a session is started and before the node is
\* inserted; known placeholders are all substituted.
C9_UnknownPlaceholderFails ==
    ( /\ last.op = "new"
      /\ last.out # "declined"
      /\ \E f \in Range(last.args.cfg.flags) : \E k \in Placeholders(f) : k \notin Known )
    => ( /\ last.out = "AssertionError"
         /\ "new_tmux" \notin Range(last.log)
         /\ ~RunAt(tree, last.args.path) )

\* C10: when mvdirs fails for a run, that run's node is as it was, under its
\* old name at its source path, and every write of the tree by a move comes
\* after its mvdirs and its tmux rename or kill.
C10_TreeMutationLast ==
    [][ last'.op = "mv" =>
        /\ \A k \in DOMAIN last'.log :
              last'.log[k] = "write" =>
                  /\ k >= 3
                  /\ last'.log[k - 2] = "mvdirs"
                  /\ last'.log[k - 1] \in {"rename_tmux", "kill_tmux"}
        /\ last'.out = "OSError" =>
              LET id == last'.src[last'.args.fail_at] IN
              /\ id \in Ids(tree')
              /\ NodeOf(tree', id) = NodeOf(tree, id)
              /\ PathOf(tree', id) = PathOf(tree, id)
              /\ last'.args.fail_at = 1 => tree' = tree ]_vars

C10_Witness ==
    /\ last.op = "mv" /\ last.out = "OSError" /\ last.args.fail_at = 2
    /\ last.args.dest = <<"x", "q">>
    /\ PathOf(tree, last.src[1]) = <<"x", "b">>
    /\ PathOf(tree, last.src[2]) = <<"a", "c">>

====
